---- MODULE Spec2Model ----
(***************************************************************************)
(* State-machine model of the SquadLeaderWhitelist plugin                  *)
(* (src/squad-leader-whitelist.js).                                        *)
(*                                                                         *)
(* Scores.  The plugin stores `progress` as a JavaScript number and        *)
(* computes on it in binary64 floating point.  The model keeps every       *)
(* number as the binary64 value it is (see "numbers") and rounds each      *)
(* operation as the code's arithmetic does, in the order the code applies  *)
(* the operations.                                                         *)
(*                                                                         *)
(* Text.  Strings the code builds or inspects (lock flags, steamIDs, the   *)
(* output file) are sequences of characters.                               *)
(*                                                                         *)
(* Time.  `clock` is the host's wall clock in whole hours; every           *)
(* `new Date()` of the code reads it.                                      *)
(*                                                                         *)
(* Concurrency.  JavaScript runs one callback at a time; an async function *)
(* gives up control at each `await`.  One action of the model is one       *)
(* store or filesystem operation taking effect together with the           *)
(* synchronous code that follows it up to the next `await`.                *)
(***************************************************************************)
EXTENDS Integers, Sequences, FiniteSets, TLC

(* ------------------------------ bounds --------------------------------- *)
\* Largest value of the wall clock, in hours.
MaxClock == 2
\* Number of accrual invocations that may be waiting on the store at once.
MaxAccInFlight == 2
\* Number of decay invocations that may be waiting on the store at once.
MaxDecInFlight == 1
\* Number of materialization runs that may be in flight at once.
MaxGenInFlight == 1
\* Firings of the 30 s timer that start an accrual invocation.
MaxProgressTicks == 2
\* UPDATED_PLAYER_INFORMATION events that start an accrual invocation.
MaxEvents == 1
\* Firings of the decay timer that pass the population gate.
MaxDecayTicks == 1
\* Firings of the materialization timer.
MaxGenTicks == 2
\* Store or filesystem operations that fail.
MaxFailures == 1
\* Times the host replaces its roster.
MaxRosterChanges == 1
\* Number of chat-command invocations that may be waiting on the store at once.
MaxQryInFlight == 1
\* !slwl chat commands the host delivers.
MaxQueries == 1
\* Records in a store that persisted from an earlier run.
MaxRecords == 3
\* Entries of a roster snapshot given to the eligibility test.
MaxRosterLen == 2
\* Largest persisted score an accrual starts from, in steps of 5 points.
MaxScoreSteps == 22
\* Consecutive sampling ticks of the two-hour scenario.
MaxScenarioTicks == 240
\* Records of the stores the frame conditions are checked over.
MaxFrameRecords == 2
\* Firings of the materialization timer beside decay runs and chat commands.
MaxFrameGenTicks == 1

(* ------------------------- program constants --------------------------- *)
\* 3600 seconds per hour, as used in `3600 / 30`.
SecondsPerHour == 3600
\* The sampling interval: setInterval(..., 30000) and `3600 / 30`.
SampleSeconds == 30
\* Width of a milestone band: Math.floor(progress / 10).
MilestoneBand == 10
\* 60 * 60 * 1000, the milliseconds of an hour.
MillisecondsPerHour == 3600000
\* Significant bits of a JavaScript number.
Precision == 53
\* The base the model writes mantissas in.
Base == 256

(* ------------------------------ numbers -------------------------------- *)
\* A JavaScript number is an IEEE 754 binary64 value.  The model keeps one as
\* its sign and its magnitude m * 2^e, with m an odd natural number below
\* 2^53 written in base 256, least significant digit first (<<>> for 0).
\* Every operation computes the exact result and rounds it to 53 significant
\* bits, to nearest, ties to even, as the hardware does.  Values stay within
\* the normal range; NaN and the infinities do not arise.
Zero == [neg |-> FALSE, m |-> <<>>, e |-> 0]

Min(x, y) == IF x <= y THEN x ELSE y

\* Naturals of any size, in base 256.
Zeros(w) == [i \in 1..w |-> 0]
Limb(a, i) == IF i <= Len(a) THEN a[i] ELSE 0

RECURSIVE bnTrim(_)
bnTrim(a) ==
  IF a # <<>> /\ a[Len(a)] = 0 THEN bnTrim(SubSeq(a, 1, Len(a) - 1)) ELSE a

RECURSIVE bnOfInt(_)
bnOfInt(n) == IF n = 0 THEN <<>> ELSE << n % Base >> \o bnOfInt(n \div Base)

RECURSIVE bnToInt(_)
bnToInt(a) == IF a = <<>> THEN 0 ELSE a[1] + Base * bnToInt(Tail(a))

RECURSIVE bnAddFrom(_, _, _, _)
bnAddFrom(a, b, i, c) ==
  IF i > Len(a) /\ i > Len(b) THEN (IF c = 0 THEN <<>> ELSE << c >>)
  ELSE LET s == Limb(a, i) + Limb(b, i) + c
       IN << s % Base >> \o bnAddFrom(a, b, i + 1, s \div Base)
bnAdd(a, b) == bnAddFrom(a, b, 1, 0)

RECURSIVE bnSubFrom(_, _, _, _)
bnSubFrom(a, b, i, c) ==
  IF i > Len(a) THEN <<>>
  ELSE LET s == a[i] - Limb(b, i) - c
       IN << (s + Base) % Base >> \o bnSubFrom(a, b, i + 1, IF s < 0 THEN 1 ELSE 0)
\* a - b for a >= b
bnSub(a, b) == bnTrim(bnSubFrom(a, b, 1, 0))

RECURSIVE bnCmpFrom(_, _, _)
bnCmpFrom(a, b, i) ==
  IF i = 0 THEN 0
  ELSE IF a[i] > b[i] THEN 1
  ELSE IF a[i] < b[i] THEN -1
  ELSE bnCmpFrom(a, b, i - 1)
\* -1, 0 or 1 as a is below, equal to or above b
bnCmp(a, b) ==
  IF Len(a) > Len(b) THEN 1
  ELSE IF Len(a) < Len(b) THEN -1
  ELSE bnCmpFrom(a, b, Len(a))

RECURSIVE bnMulFrom(_, _, _, _)
bnMulFrom(a, n, i, c) ==
  IF i > Len(a) THEN bnOfInt(c)
  ELSE LET s == a[i] * n + c
       IN << s % Base >> \o bnMulFrom(a, n, i + 1, s \div Base)
\* a * n for a natural n below 2^22
bnMulSmall(a, n) == bnTrim(bnMulFrom(a, n, 1, 0))

RECURSIVE bnDivFrom(_, _, _, _)
bnDivFrom(a, n, i, r) ==
  IF i = 0 THEN [q |-> <<>>, r |-> r]
  ELSE LET cur  == r * Base + a[i]
           rest == bnDivFrom(a, n, i - 1, cur % n)
       IN [q |-> Append(rest.q, cur \div n), r |-> rest.r]
\* quotient and remainder of a by a natural n, 0 < n < 2^22
bnDivSmall(a, n) ==
  LET d == bnDivFrom(a, n, Len(a), 0) IN [q |-> bnTrim(d.q), r |-> d.r]

\* a * 2^k
bnShl(a, k) ==
  IF a = <<>> \/ k = 0 THEN a
  ELSE IF k % 8 = 0 THEN Zeros(k \div 8) \o a
  ELSE Zeros(k \div 8) \o bnMulSmall(a, 2 ^ (k % 8))

\* floor(a / 2^k), and whether a nonzero bit was dropped
bnShr(a, k) ==
  LET w == Min(k \div 8, Len(a))
      d == IF k % 8 = 0 THEN [q |-> SubSeq(a, w + 1, Len(a)), r |-> 0]
           ELSE bnDivSmall(SubSeq(a, w + 1, Len(a)), 2 ^ (k % 8))
  IN [q |-> d.q, nz |-> d.r # 0 \/ \E i \in 1..w : a[i] # 0]

RECURSIVE BitsOf(_)
\* The number of bits of a natural x.
BitsOf(x) ==
  IF x < 2 THEN x
  ELSE IF x < 4 THEN 2
  ELSE IF x < 8 THEN 3
  ELSE IF x < 16 THEN 4
  ELSE 4 + BitsOf(x \div 16)
bnBitLen(a) == IF a = <<>> THEN 0 ELSE 8 * (Len(a) - 1) + BitsOf(a[Len(a)])

RECURSIVE TrailingZeros(_)
\* The number of zero bits below the lowest 1 bit of a positive x.
TrailingZeros(x) ==
  IF x % 2 = 1 THEN 0
  ELSE IF x % 4 = 2 THEN 1
  ELSE IF x % 8 = 4 THEN 2
  ELSE IF x % 16 = 8 THEN 3
  ELSE 4 + TrailingZeros(x \div 16)

\* The number of sign neg and magnitude N * 2^e, N below 2^53, in the form
\* the model keeps: odd mantissa.
Canon(neg, N, e) ==
  IF N = <<>> THEN Zero
  ELSE LET w  == (CHOOSE i \in 1..Len(N) : N[i] # 0 /\ \A j \in 1..(i - 1) : N[j] = 0) - 1
           a  == SubSeq(N, w + 1, Len(N))
           tz == TrailingZeros(a[1])
       IN [neg |-> neg, m |-> bnShr(a, tz).q, e |-> e + 8 * w + tz]

\* The binary64 value nearest to (N + f) * 2^e, where 0 <= f < 1 and
\* `sticky` tells f # 0 (N has more than 54 bits whenever sticky holds).
RoundToNearest(neg, N, e, sticky) ==
  LET L == bnBitLen(N)
  IN IF L <= Precision THEN Canon(neg, N, e)
     ELSE LET s    == bnShr(N, L - Precision - 1)
              half == s.q[1] % 2 = 1
              q    == bnDivSmall(s.q, 2).q
              up   == half /\ (s.nz \/ sticky \/ q[1] % 2 = 1)
          IN Canon(neg, IF up THEN bnAdd(q, << 1 >>) ELSE q, e + L - Precision)

\* The number of a natural n.
Double(n) == Canon(FALSE, bnOfInt(n), 0)

isZero(x) == x.m = <<>>

\* x is a natural number below 2^30, and that number.
isSmall(x) == ~x.neg /\ x.e >= 0 /\ bnBitLen(x.m) + x.e <= 30
toInt(x) == bnToInt(x.m) * 2 ^ x.e
dNeg(x) == IF isZero(x) THEN x ELSE [x EXCEPT !.neg = ~@]

\* -1, 0, 1 as |x| is below, equal to or above |y|
cmpMag(x, y) ==
  IF isZero(x) \/ isZero(y)
    THEN (IF isZero(x) /\ isZero(y) THEN 0 ELSE IF isZero(x) THEN -1 ELSE 1)
  ELSE LET top(z) == bnBitLen(z.m) + z.e
           e0     == Min(x.e, y.e)
       IN IF top(x) > top(y) THEN 1
          ELSE IF top(x) < top(y) THEN -1
          ELSE IF x = y THEN 0
          ELSE bnCmp(bnShl(x.m, x.e - e0), bnShl(y.m, y.e - e0))

\* -1, 0, 1 as x < y, x = y, x > y
dCmp(x, y) ==
  IF x.neg # y.neg THEN (IF x.neg THEN -1 ELSE 1)
  ELSE IF x.neg THEN 0 - cmpMag(x, y) ELSE cmpMag(x, y)

dLt(x, y)  == dCmp(x, y) < 0
dGt(x, y)  == dCmp(x, y) > 0
dGte(x, y) == dCmp(x, y) >= 0

\* x + y
dAdd(x, y) ==
  IF isZero(x) THEN y
  ELSE IF isZero(y) THEN x
  ELSE IF isSmall(x) /\ isSmall(y) THEN Double(toInt(x) + toInt(y))
  ELSE LET e0 == Min(x.e, y.e)
           a  == bnShl(x.m, x.e - e0)
           b  == bnShl(y.m, y.e - e0)
           c  == bnCmp(a, b)
       IN IF x.neg = y.neg THEN RoundToNearest(x.neg, bnAdd(a, b), e0, FALSE)
          ELSE IF c = 0 THEN Zero
          ELSE IF c > 0 THEN RoundToNearest(x.neg, bnSub(a, b), e0, FALSE)
          ELSE RoundToNearest(y.neg, bnSub(b, a), e0, FALSE)

\* x - y
dSub(x, y) == dAdd(x, dNeg(y))

\* x / n for a natural n, 0 < n < 2^22: the dividend is extended by zero
\* digits so that the quotient keeps more than Precision + 1 bits.
dDivInt(x, n) ==
  IF isZero(x) THEN Zero
  ELSE IF isSmall(x) /\ toInt(x) % n = 0 THEN Double(toInt(x) \div n)
  ELSE LET bits  == Precision + 2 + BitsOf(n) - bnBitLen(x.m)
           guard == IF bits > 0 THEN (bits + 7) \div 8 ELSE 0
           d     == bnDivSmall(Zeros(guard) \o x.m, n)
       IN RoundToNearest(x.neg, d.q, x.e - 8 * guard, d.r # 0)

\* x * n for a natural n below 2^22
dMulInt(x, n) ==
  IF isZero(x) \/ n = 0 THEN Zero
  ELSE RoundToNearest(x.neg, bnMulSmall(x.m, n), x.e, FALSE)

\* Math.floor(x), an integer below 2^31
dFloor(x) ==
  LET f == IF isZero(x) THEN [q |-> <<>>, nz |-> FALSE]
           ELSE IF x.e >= 0 THEN [q |-> bnShl(x.m, x.e), nz |-> FALSE]
           ELSE bnShr(x.m, 0 - x.e)
  IN IF x.neg THEN 0 - bnToInt(f.q) - (IF f.nz THEN 1 ELSE 0) ELSE bnToInt(f.q)

\* Math.round(x): floor(x + 1/2), computed exactly
dRound(x) == (dFloor([x EXCEPT !.e = @ + 1]) + 1) \div 2

(* ------------------------------- text ---------------------------------- *)
\* A string is the sequence of its characters.
NL == "\n"
UpperCase == << "A", "B", "C", "D", "E", "F", "G", "H", "I", "J", "K", "L", "M",
                "N", "O", "P", "Q", "R", "S", "T", "U", "V", "W", "X", "Y", "Z" >>
LowerCase == << "a", "b", "c", "d", "e", "f", "g", "h", "i", "j", "k", "l", "m",
                "n", "o", "p", "q", "r", "s", "t", "u", "v", "w", "x", "y", "z" >>

\* The lower-case form of one character.
toLowerCaseChar(c) ==
  IF \E i \in 1..Len(UpperCase) : UpperCase[i] = c
    THEN LowerCase[CHOOSE i \in 1..Len(UpperCase) : UpperCase[i] = c]
    ELSE c

\* String.prototype.toLowerCase()
toLowerCase(s) == [ i \in 1..Len(s) |-> toLowerCaseChar(s[i]) ]

RECURSIVE join(_, _)
\* Array.prototype.join(sep)
join(parts, sep) ==
  IF parts = <<>> THEN <<>>
  ELSE IF Len(parts) = 1 THEN parts[1]
  ELSE parts[1] \o sep \o join(Tail(parts), sep)

\* The steamIDs of the players of the model.
P1 == << "p", "1" >>
P2 == << "p", "2" >>
P3 == << "p", "3" >>
P4 == << "p", "4" >>
NoId == <<>>

(* ------------------------------ options -------------------------------- *)
\* managedWhitelistGroup, a configured name.
GroupName == << "w", "l" >>

\* The configurations the model runs under (optionsSpecification gives the
\* names and types; the values are configuration input).  With these values
\* an accrual adds 10 points, a decay removes (36 / 3600000) * 1200000
\* points, and the threshold is 10.
Configs ==
  { [ threshold            |-> 10,
      progressPerHour      |-> 1200,
      decayPerHour         |-> 36,
      decayIntervalSeconds |-> 1200,
      decayAfterHours      |-> 1,
      minPlayersForDecay   |-> 2,
      minSquadMembers      |-> 2,
      onlyOpenSquads       |-> TRUE,
      managedWhitelistGroup |-> GroupName ] }

(* ------------------------------ rosters -------------------------------- *)
\* The JavaScript values a lock flag may be: a boolean, a string, or missing.
JsBoolean(b) == [type |-> "boolean", bool |-> b, text |-> <<>>]
JsString(s)  == [type |-> "string", bool |-> FALSE, text |-> s]
JsUndefined  == [type |-> "undefined", bool |-> FALSE, text |-> <<>>]

\* String(x)
toStr(v) ==
  CASE v.type = "boolean"   -> IF v.bool THEN << "t", "r", "u", "e" >>
                                         ELSE << "f", "a", "l", "s", "e" >>
    [] v.type = "string"    -> v.text
    [] v.type = "undefined" -> << "u", "n", "d", "e", "f", "i", "n", "e", "d" >>

\* Lock flags as the host has been seen to report them.
StrFalse == JsString(<< "F", "a", "l", "s", "e" >>)
StrTRUE  == JsString(<< "T", "R", "U", "E" >>)
StrfAlse == JsString(<< "f", "A", "l", "s", "e" >>)

\* A descriptor with no squad (player.squad is null); a descriptor of a
\* player in squad sq; a roster entry that is null.
NoSquad == [squadID |-> 0, locked |-> JsUndefined]
Desc(id, sq, lock, lead) ==
  [steamID |-> id, squad |-> [squadID |-> sq, locked |-> lock], isLeader |-> lead,
   isNull |-> FALSE]
NullDesc ==
  [steamID |-> NoId, squad |-> NoSquad, isLeader |-> FALSE, isNull |-> TRUE]

\* server.players: an array of descriptors, or a falsy value (no roster yet).
Roster(list) == [present |-> TRUE, list |-> list]
RosterNone   == [present |-> FALSE, list |-> <<>>]
RosterEmpty  == Roster(<<>>)
RosterOne    == Roster(<< Desc(P1, 1, StrFalse, TRUE),
                          Desc(P3, 1, StrFalse, FALSE) >>)
RosterTwo    == Roster(<< Desc(P1, 1, StrFalse, TRUE),
                          Desc(P3, 1, StrFalse, FALSE),
                          Desc(P2, 2, JsBoolean(FALSE), TRUE),
                          Desc(P4, 2, JsBoolean(FALSE), FALSE) >>)
Rosters == { RosterNone, RosterOne, RosterTwo }

\* players.filter((p) => p.squad && p.squad.squadID === player.squad.squadID)
squadMembers(players, player) ==
  { i \in 1..Len(players) :
      /\ players[i].squad # NoSquad
      /\ players[i].squad.squadID = player.squad.squadID }

\* String(player.squad.locked).toLowerCase() === 'false'
isUnlocked(opts, player) ==
  \/ ~opts.onlyOpenSquads
  \/ toLowerCase(toStr(player.squad.locked)) = << "f", "a", "l", "s", "e" >>

\* The squad must have more members than the minimum.
isEligibleAboveMinimum(opts, players, player) ==
  /\ player.squad # NoSquad
  /\ player.isLeader
  /\ Cardinality(squadMembers(players, player)) > opts.minSquadMembers
  /\ isUnlocked(opts, player)

\* The test of one roster entry, lines 393-416.
isEligible(opts, players, player) ==
  /\ player.squad # NoSquad
  /\ player.isLeader
  /\ Cardinality(squadMembers(players, player)) >= opts.minSquadMembers
  /\ isUnlocked(opts, player)

RECURSIVE eligibleFrom(_, _, _)
eligibleFrom(opts, players, i) ==
  IF i > Len(players) THEN <<>>
  ELSE (IF isEligible(opts, players, players[i])
          THEN << players[i].steamID >> ELSE <<>>)
       \o eligibleFrom(opts, players, i + 1)

\* eligibleLeaders, in roster order (the steamIDs are all the loop uses).
eligibleLeaders(opts, players) == eligibleFrom(opts, players, 1)

(* ------------------------------- store --------------------------------- *)
\* The WhitelistProgress table: rows in insertion order.
NoRecord == [steamID |-> NoId, progress |-> Zero, lastProgressed |-> 0]

RowIdx(rs, id) == { i \in 1..Len(rs) : rs[i].steamID = id }

\* Model.findOne({ where: { steamID } })
findOne(rs, id) ==
  IF RowIdx(rs, id) = {} THEN NoRecord
  ELSE rs[CHOOSE i \in RowIdx(rs, id) : \A j \in RowIdx(rs, id) : i <= j]

\* steamID is the primary key: an insert of an existing key is rejected.
createRejected(rs, id) == RowIdx(rs, id) # {}

\* The instance Model.create({ steamID, progress: 0, lastProgressed: now })
\* resolves to.
newRecord(id, now) == [steamID |-> id, progress |-> Double(0), lastProgressed |-> now]

\* Model.create({ steamID, progress: 0, lastProgressed: now })
create(rs, id, now) == Append(rs, newRecord(id, now))

\* The fields an instance marks as changed when lines 491-492 assign
\* newProgress and now to it: those whose value differs from the one it holds.
changedFields(playerRecord, newProgress, now) ==
  (IF newProgress # playerRecord.progress THEN {"progress"} ELSE {})
    \cup (IF now # playerRecord.lastProgressed THEN {"lastProgressed"} ELSE {})

\* instance.save(): UPDATE <the changed fields> WHERE steamID = id.
save(rs, id, changed, values) ==
  [ i \in 1..Len(rs) |->
      IF rs[i].steamID = id
        THEN [ steamID        |-> rs[i].steamID,
               progress       |-> IF "progress" \in changed
                                    THEN values.progress ELSE rs[i].progress,
               lastProgressed |-> IF "lastProgressed" \in changed
                                    THEN values.lastProgressed
                                    ELSE rs[i].lastProgressed ]
        ELSE rs[i] ]

\* A save that also restamps the record.
saveProgressAndTouch(rs, id, p) ==
  [ i \in 1..Len(rs) |->
      IF rs[i].steamID = id
        THEN [rs[i] EXCEPT !.progress = p, !.lastProgressed = @ + 1]
        ELSE rs[i] ]

\* Decay's playerRecord.save(): only `progress` was assigned, and to a
\* smaller value, so UPDATE progress.
saveProgress(rs, id, p) ==
  save(rs, id, {"progress"}, [progress |-> p, lastProgressed |-> 0])

\* A slip of the comparison: Op.gt for Op.gte.
findAllGt(rs, opts) ==
  LET Test(r) == dGt(r.progress, Double(opts.threshold)) IN SelectSeq(rs, Test)

\* Model.findAll({ where: { progress: { [Op.gte]: threshold } } })
findAllGte(rs, opts) ==
  LET Test(r) == dGte(r.progress, Double(opts.threshold)) IN SelectSeq(rs, Test)

(* ------------------------------ accrual -------------------------------- *)
\* The increment of a 60 s sample.
progressIncrementPerMinute(opts) ==
  dDivInt(Double(opts.progressPerHour), SecondsPerHour \div (2 * SampleSeconds))

\* progressPerHour / (3600 / 30)
progressIncrement(opts) ==
  dDivInt(Double(opts.progressPerHour), SecondsPerHour \div SampleSeconds)

\* Math.floor(progress / 10)
milestone(p) == dFloor(dDivInt(p, MilestoneBand))

\* Math.round((progress / threshold) * 100)
progressPercentage(opts, p) == dRound(dMulInt(dDivInt(p, opts.threshold), 100))

NoMsg == [kind |-> "none", band |-> 0, pct |-> 0]

\* The message without the test of wasWhitelisted.
milestoneMessageAlways(opts, oldProgress, newProgress) ==
  LET oldMilestone == milestone(oldProgress)
      newMilestone == milestone(newProgress)
  IN IF newMilestone > oldMilestone
       THEN IF dGte(newProgress, Double(opts.threshold))
              THEN [kind |-> "whitelisted", band |-> newMilestone, pct |-> 0]
              ELSE [kind |-> "progress", band |-> newMilestone,
                    pct |-> progressPercentage(opts, newProgress)]
       ELSE NoMsg

\* The message of lines 466-489 for old and new progress, or NoMsg.
milestoneMessage(opts, oldProgress, newProgress) ==
  LET oldMilestone   == milestone(oldProgress)
      newMilestone   == milestone(newProgress)
      wasWhitelisted == dGte(oldProgress, Double(opts.threshold))
      isWhitelisted  == dGte(newProgress, Double(opts.threshold))
  IN IF ~wasWhitelisted /\ newMilestone > oldMilestone
       THEN IF isWhitelisted
              THEN [kind |-> "whitelisted", band |-> newMilestone, pct |-> 0]
              ELSE [kind |-> "progress", band |-> newMilestone,
                    pct |-> progressPercentage(opts, newProgress)]
       ELSE NoMsg

(* ------------------------------- decay --------------------------------- *)
\* (decayPerHour / (60 * 60 * 1000)) * decayIntervalMilliseconds
decayAmountPerInterval(opts) ==
  dMulInt(dDivInt(Double(opts.decayPerHour), MillisecondsPerHour),
          opts.decayIntervalSeconds * 1000)

\* The subtraction without its floor.
decayedProgressUnclamped(opts, p) == dSub(p, decayAmountPerInterval(opts))

\* Math.max(0, playerRecord.progress - decayAmountPerInterval)
decayedProgress(opts, p) ==
  LET d == dSub(p, decayAmountPerInterval(opts))
  IN IF dGt(d, Zero) THEN d ELSE Zero

\* now - lastProgressed > decayAfterHours * 60 * 60 * 1000 (clock in hours)
isInactive(opts, now, row) == now - row.lastProgressed > opts.decayAfterHours

RECURSIVE decayWrites(_, _, _, _)
\* The saves a decay run performs on the rows it read, in order:
\* lines 605-630 on the result of findAll().
decayWrites(opts, now, rs, i) ==
  IF i > Len(rs) THEN <<>>
  ELSE LET newProgress == decayedProgress(opts, rs[i].progress)
       IN (IF isInactive(opts, now, rs[i]) /\ dLt(newProgress, rs[i].progress)
             THEN << [steamID |-> rs[i].steamID, progress |-> newProgress] >>
             ELSE <<>>)
          \o decayWrites(opts, now, rs, i + 1)

(* ------------------------------- file ---------------------------------- *)
\* `Group=${groupName}:reserve`
groupDefinition(g) ==
  << "G", "r", "o", "u", "p", "=" >> \o g
    \o << ":", "r", "e", "s", "e", "r", "v", "e" >>

\* `Admin=${p.steamID}:${groupName}`
adminLine(id, g) == << "A", "d", "m", "i", "n", "=" >> \o id \o << ":" >> \o g

\* whitelistedPlayers.map(...).join('\n')
adminLines(ws, g) ==
  join([ i \in 1..Len(ws) |-> adminLine(ws[i].steamID, g) ], << NL >>)

\* A write of `data` at offset 0 through a descriptor of its own: the bytes
\* of the file beyond the data (put there by another writer since this one
\* opened the file) stay.
writeAtStart(old, data) ==
  data \o SubSeq(old, Len(data) + 1, Len(old))

\* `${groupDefinition}\n\n${adminLines}\n`
whitelistContent(opts, ws) ==
  groupDefinition(opts.managedWhitelistGroup) \o << NL, NL >>
    \o adminLines(ws, opts.managedWhitelistGroup) \o << NL >>

(* ------------------------------- state --------------------------------- *)
VARIABLES
  options,           \* this.options
  phase,             \* where mount()/unmount() stand
  listeners,         \* handlers registered for UPDATED_PLAYER_INFORMATION
  binds,             \* number of .bind(this) results created so far
  progressInterval,  \* TRUE while the 30 s timer is armed
  decayInterval,     \* TRUE while the decay timer is armed
  whitelistInterval, \* TRUE while the materialization timer is armed
  serverPlayers,     \* this.server.players
  clock,             \* the wall clock, in hours
  rows,              \* the WhitelistProgress table
  file,              \* the output file
  acc,               \* in-flight onPlayerInformationUpdate invocations
  dec,               \* in-flight decayWhitelistProgress invocations
  gen,               \* in-flight generateWhitelistFile invocations
  rcon,              \* the rcon.warn messages sent to each player, in order
  budget,            \* what the environment may still do (see the bounds)
  accWrites,         \* history: accrual saves that took effect, per player
  decWrites,         \* history: decay saves that took effect, per player
  everQualified,     \* history: players whose stored score was >= threshold
  published,         \* history: the last completed write of the file (see Published)
  qry,               \* in-flight onChatCommand invocations
  replies,           \* the replies onChatCommand sent to each player, in order
  noted              \* history: what handlers did that leaves no other trace

vars == << options, phase, listeners, binds, progressInterval, decayInterval,
           whitelistInterval, serverPlayers, clock, rows, file, acc, dec, gen,
           rcon, budget, accWrites, decWrites, everQualified, published,
           qry, replies, noted >>

hostVars  == << serverPlayers, clock >>
timerVars == << progressInterval, decayInterval, whitelistInterval >>
mountVars == << options, phase, listeners, binds >>
histVars  == << accWrites, decWrites, everQualified >>
sideVars  == << qry, replies, noted >>

Players == {P1, P2, P3}

\* The output file: absent, or its bytes.
NoFile       == [exists |-> FALSE, data |-> <<>>]
FileOf(data) == [exists |-> TRUE, data |-> data]

\* History of the output file: `done`, some run has completed its write;
\* `intact`, the file holds exactly the content the last completed write
\* wrote (no open or failed write since, no bytes left by an overlapping
\* writer); `seen`, the rows that run had read from the store.
NotPublished  == [done |-> FALSE, intact |-> FALSE, seen |-> <<>>]
Published(rs) == [done |-> TRUE, intact |-> TRUE, seen |-> rs]

\* `changed` holds the fields the instance in hand has marked as changed.
AccIdle == [pc |-> "idle", origin |-> "none", now |-> 0, leaders |-> <<>>,
            oldProgress |-> Zero, newProgress |-> Zero, changed |-> {}]
DecIdle == [pc |-> "idle", now |-> 0, todo |-> <<>>]
GenIdle == [pc |-> "idle", origin |-> "none", content |-> <<>>, seen |-> <<>>]
QryIdle == [pc |-> "idle", steamID |-> NoId, progress |-> Zero]

\* The lowest free slot of a table of invocations (0 when all are busy).
FreeSlot(tab) ==
  IF \E s \in DOMAIN tab : tab[s].pc = "idle"
    THEN CHOOSE s \in DOMAIN tab :
           tab[s].pc = "idle" /\ \A t \in DOMAIN tab : tab[t].pc = "idle" => s <= t
    ELSE 0

\* Players whose stored score is at or above the threshold.
QualifiedIn(rs, opts) ==
  { rs[i].steamID :
      i \in { j \in 1..Len(rs) : dGte(rs[j].progress, Double(opts.threshold)) } }

\* One unit of an environment budget is spent.
Spend(what) == budget' = [budget EXCEPT ![what] = @ - 1]

FullBudget ==
  [ progress |-> MaxProgressTicks, event |-> MaxEvents, decay |-> MaxDecayTicks,
    generate |-> MaxGenTicks, failure |-> MaxFailures, roster |-> MaxRosterChanges,
    query |-> MaxQueries ]

\* The plugin as constructed, before mount(), in an environment with budget b.
InitWith(b) ==
  /\ options \in Configs
  /\ phase = "constructed"
  /\ listeners = {}
  /\ binds = 0
  /\ progressInterval = FALSE
  /\ decayInterval = FALSE
  /\ whitelistInterval = FALSE
  /\ serverPlayers = RosterNone
  /\ clock = 0
  /\ rows = <<>>
  /\ file = NoFile
  /\ acc = [s \in 1..MaxAccInFlight |-> AccIdle]
  /\ dec = [s \in 1..MaxDecInFlight |-> DecIdle]
  /\ gen = [s \in 1..MaxGenInFlight |-> GenIdle]
  /\ rcon = [p \in Players |-> <<>>]
  /\ budget = b
  /\ accWrites = [p \in Players |-> 0]
  /\ decWrites = [p \in Players |-> 0]
  /\ everQualified = {}
  /\ published = NotPublished
  /\ qry = [s \in 1..MaxQryInFlight |-> QryIdle]
  /\ replies = [p \in Players |-> <<>>]
  /\ noted = {}

Init == InitWith(FullBudget)

(* ------------------------------- host ---------------------------------- *)
\* The host replaces its roster by one of `rosters`.
HostRosterIn(rosters) ==
  /\ budget.roster > 0
  /\ Spend("roster")
  /\ \E r \in rosters :
       /\ r # serverPlayers
       /\ serverPlayers' = r
  /\ UNCHANGED << mountVars, timerVars, clock, rows, file, acc, dec, gen,
                  rcon, histVars, sideVars, published >>

HostRoster == HostRosterIn(Rosters)

\* An hour passes.
HostClock ==
  /\ clock < MaxClock
  /\ clock' = clock + 1
  /\ UNCHANGED << mountVars, timerVars, serverPlayers, rows, file, acc, dec,
                  gen, rcon, budget, histVars, sideVars, published >>

(* --------------------------- mount / unmount --------------------------- *)
\* startProgressTracking, startDecayInterval, startWhitelistGenerationInterval
StartIntervals ==
  /\ progressInterval' = TRUE
  /\ decayInterval' = TRUE
  /\ whitelistInterval' = TRUE

\* mount() up to `await this.ensureWhitelistFileExists()`: sync() resolves and
\* the listener, a fresh .bind(this) result, is registered.
MountSync ==
  /\ phase = "constructed"
  /\ phase' = "ensuring"
  /\ listeners' = listeners \cup {binds + 1}
  /\ binds' = binds + 1
  /\ UNCHANGED << options, timerVars, hostVars, rows, file, acc, dec, gen,
                  rcon, budget, histVars, sideVars, published >>

\* The listeners registered ahead of the sync() that rejects.
MountSyncFailsListening ==
  /\ phase = "constructed"
  /\ budget.failure > 0
  /\ Spend("failure")
  /\ phase' = "failed"
  /\ listeners' = listeners \cup {binds + 1}
  /\ binds' = binds + 1
  /\ UNCHANGED << options, timerVars, hostVars, rows, file,
                  acc, dec, gen, rcon, histVars, sideVars, published >>

\* sync() rejects: mount()'s catch logs and returns.
MountSyncFails ==
  /\ phase = "constructed"
  /\ budget.failure > 0
  /\ Spend("failure")
  /\ phase' = "failed"
  /\ UNCHANGED << options, listeners, binds, timerVars, hostVars, rows, file,
                  acc, dec, gen, rcon, histVars, sideVars, published >>

\* fs.writeFile(filePath, '', { flag: 'a+' }): creates the file when absent,
\* keeps its content otherwise.
ensureWhitelistFileExists(f) == IF f.exists THEN f ELSE FileOf(<<>>)

\* mount() calls generateWhitelistFile() once ensureWhitelistFileExists()
\* has settled.
MountGenerate ==
  /\ phase' = "generating"
  /\ gen' = [gen EXCEPT ![FreeSlot(gen)] =
               [GenIdle EXCEPT !.pc = "findAll", !.origin = "mount"]]
  /\ UNCHANGED << options, listeners, binds, timerVars, hostVars, rows, acc,
                  dec, rcon, histVars, sideVars, published >>

\* ensureWhitelistFileExists() resolves.
MountEnsure ==
  /\ phase = "ensuring"
  /\ file' = ensureWhitelistFileExists(file)
  /\ MountGenerate
  /\ UNCHANGED budget

\* mkdir or writeFile rejects: ensureWhitelistFileExists()'s catch logs it.
MountEnsureFails ==
  /\ phase = "ensuring"
  /\ budget.failure > 0
  /\ Spend("failure")
  /\ MountGenerate
  /\ UNCHANGED file

\* The bound function unmount() hands to removeListener: a new .bind(this)
\* result, not the one mount() registered.
unmountHandler(n) == n + 1

\* unmount()
Unmount ==
  /\ phase = "mounted"
  /\ phase' = "unmounted"
  /\ listeners' = listeners \ {unmountHandler(binds)}
  /\ binds' = binds + 1
  /\ progressInterval' = FALSE
  /\ decayInterval' = FALSE
  /\ whitelistInterval' = FALSE
  /\ UNCHANGED << options, hostVars, rows, file, acc, dec, gen, rcon, budget,
                  histVars, sideVars, published >>

(* ------------------------------ accrual -------------------------------- *)
\* A roster entry is null: `player.name` at line 391 throws a TypeError.
throwsOnEntry(players) ==
  \E i \in 1..Len(players.list) : players.list[i].isNull

\* The leaders onPlayerInformationUpdate(players) goes on to award: none when
\* the guard of line 379 returns, and none when the eligibility loop throws
\* (the catch of line 504 ends the invocation).
leadersOf(opts, players) ==
  IF players.present /\ Len(players.list) > 0 /\ ~throwsOnEntry(players)
    THEN eligibleLeaders(opts, players.list) ELSE <<>>

\* onPlayerInformationUpdate(players) up to its first await: `now` is taken
\* and the first findOne is issued.
BeginAccrual(origin, players) ==
  acc' = [acc EXCEPT ![FreeSlot(acc)] =
            [AccIdle EXCEPT !.pc = "findOne", !.origin = origin, !.now = clock,
                            !.leaders = leadersOf(options, players)]]

\* The setInterval callback of startProgressTracking.
ProgressTimer ==
  /\ progressInterval
  /\ serverPlayers.present
  /\ leadersOf(options, serverPlayers) # <<>>
  /\ budget.progress > 0
  /\ FreeSlot(acc) # 0
  /\ Spend("progress")
  /\ BeginAccrual("timer", serverPlayers)
  /\ UNCHANGED << mountVars, timerVars, hostVars, rows, file, dec, gen, rcon,
                  histVars, sideVars, published >>

\* The same callback when the handler returns having awarded nobody: the
\* eligibility loop threw on a null entry, or found no eligible leader.
ProgressTimerNoAward ==
  /\ progressInterval
  /\ serverPlayers.present
  /\ leadersOf(options, serverPlayers) = <<>>
  /\ budget.progress > 0
  /\ Spend("progress")
  /\ noted' = noted \cup { IF throwsOnEntry(serverPlayers)
                              THEN "accrual: caught TypeError"
                              ELSE "accrual: nobody eligible" }
  /\ UNCHANGED << mountVars, timerVars, hostVars, rows, file, acc, dec, gen,
                  rcon, histVars, published, qry, replies >>

\* The host emits UPDATED_PLAYER_INFORMATION with its roster as the argument;
\* the registered listener is onPlayerInformationUpdate.
HostEmitUpdate ==
  /\ listeners # {}
  /\ leadersOf(options, serverPlayers) # <<>>
  /\ budget.event > 0
  /\ FreeSlot(acc) # 0
  /\ Spend("event")
  /\ BeginAccrual("event", serverPlayers)
  /\ UNCHANGED << mountVars, timerVars, hostVars, rows, file, dec, gen, rcon,
                  histVars, sideVars, published >>

\* An invocation leaves the loop body of one leader: next leader, or done.
NextLeader(a) ==
  IF Len(a.leaders) > 1
    THEN [AccIdle EXCEPT !.pc = "findOne", !.origin = a.origin, !.now = a.now,
                         !.leaders = Tail(a.leaders)]
    ELSE AccIdle

\* this.server.rcon.warn(steamID, ...); `late` notes that the
\* player's stored score had been at or above the threshold before.
Warn(id, msg) ==
  rcon' = IF msg = NoMsg THEN rcon
          ELSE [rcon EXCEPT ![id] =
                  Append(@, [kind |-> msg.kind, band |-> msg.band,
                             pct |-> msg.pct, late |-> id \in everQualified])]

\* Lines 463-496 once playerRecord is in hand: the message (if any) is sent,
\* the new values are assigned to the instance and save() is issued.
Award(s, id, oldProgress, playerRecord) ==
  LET newProgress == dAdd(playerRecord.progress, progressIncrement(options))
  IN /\ Warn(id, milestoneMessage(options, oldProgress, newProgress))
     /\ acc' = [acc EXCEPT ![s].pc = "save",
                           ![s].oldProgress = oldProgress,
                           ![s].newProgress = newProgress,
                           ![s].changed =
                              changedFields(playerRecord, newProgress, acc[s].now)]

\* findOne resolves.
AccFindOne(s) ==
  /\ acc[s].pc = "findOne"
  /\ LET id == Head(acc[s].leaders)
         playerRecord == findOne(rows, id)
     IN IF playerRecord = NoRecord
          THEN /\ acc' = [acc EXCEPT ![s].pc = "create"]
               /\ UNCHANGED rcon
          ELSE Award(s, id, playerRecord.progress, playerRecord)
  /\ UNCHANGED << mountVars, timerVars, hostVars, rows, file, dec, gen,
                  budget, histVars, sideVars, published >>

\* create resolves, or is rejected because the key exists by now.
AccCreate(s) ==
  /\ acc[s].pc = "create"
  /\ LET id == Head(acc[s].leaders)
     IN IF createRejected(rows, id)
          THEN /\ acc' = [acc EXCEPT ![s] = AccIdle]
               /\ UNCHANGED << rows, rcon >>
          ELSE /\ rows' = create(rows, id, acc[s].now)
               /\ Award(s, id, Double(0), newRecord(id, acc[s].now))
  /\ UNCHANGED << mountVars, timerVars, hostVars, file, dec, gen, budget,
                  histVars, sideVars, published >>

\* save resolves: the fields the instance marked as changed are written.
AccSave(s) ==
  /\ acc[s].pc = "save"
  /\ LET id == Head(acc[s].leaders)
     IN /\ rows' = save(rows, id, acc[s].changed,
                        [progress |-> acc[s].newProgress,
                         lastProgressed |-> acc[s].now])
        /\ accWrites' = [accWrites EXCEPT ![id] = @ + 1]
  /\ everQualified' = everQualified \cup QualifiedIn(rows', options)
  /\ acc' = [acc EXCEPT ![s] = NextLeader(acc[s])]
  /\ UNCHANGED << mountVars, timerVars, hostVars, file, dec, gen, rcon,
                  budget, decWrites, published, sideVars >>

\* What the catch of line 504 leaves of an invocation whose store call threw:
\* the loop over the leaders is inside the try, so the invocation ends.
afterAccrualError(a) == AccIdle

\* A store call of an accrual invocation rejects.
AccFail(s) ==
  /\ acc[s].pc \in {"findOne", "create", "save"}
  /\ budget.failure > 0
  /\ Spend("failure")
  /\ acc' = [acc EXCEPT ![s] = afterAccrualError(acc[s])]
  /\ UNCHANGED << mountVars, timerVars, hostVars, rows, file, dec, gen, rcon,
                  histVars, sideVars, published >>

(* ------------------------------- decay --------------------------------- *)
\* players ? players.length : 0
playerCount(players) == IF players.present THEN Len(players.list) ELSE 0

\* The gate compared against one player fewer.
decayGateOpenOffByOne(opts, players) ==
  ~(playerCount(players) < opts.minPlayersForDecay - 1)

\* The population gate of line 585.
decayGateOpen(opts, players) == ~(playerCount(players) < opts.minPlayersForDecay)

\* The setInterval callback of startDecayInterval: decayWhitelistProgress()
\* up to `await findAll()`.
DecayTimer ==
  /\ decayInterval
  /\ decayGateOpen(options, serverPlayers)
  /\ budget.decay > 0
  /\ FreeSlot(dec) # 0
  /\ Spend("decay")
  /\ dec' = [dec EXCEPT ![FreeSlot(dec)] =
               [pc |-> "findAll", now |-> clock, todo |-> <<>>]]
  /\ UNCHANGED << mountVars, timerVars, hostVars, rows, file, acc, gen, rcon,
                  histVars, sideVars, published >>

\* The same callback when the population gate is closed:
\* decayWhitelistProgress() returns at line 587 before any store call.
DecayTimerGated ==
  /\ decayInterval
  /\ ~decayGateOpen(options, serverPlayers)
  /\ budget.decay > 0
  /\ Spend("decay")
  /\ noted' = noted \cup {"decay: gate closed"}
  /\ UNCHANGED << mountVars, timerVars, hostVars, rows, file, acc, dec, gen,
                  rcon, histVars, published, qry, replies >>

\* findAll resolves: the loop runs on the instances read, down to the first
\* save() it awaits.
DecFindAll(s) ==
  /\ dec[s].pc = "findAll"
  /\ LET todo == decayWrites(options, dec[s].now, rows, 1)
     IN dec' = [dec EXCEPT ![s] =
                  IF todo = <<>> THEN DecIdle
                  ELSE [dec[s] EXCEPT !.pc = "save", !.todo = todo]]
  /\ UNCHANGED << mountVars, timerVars, hostVars, rows, file, acc, gen, rcon,
                  budget, histVars, sideVars, published >>

\* save resolves: the loop goes on to the next save, or ends.
DecSave(s) ==
  /\ dec[s].pc = "save"
  /\ LET w == Head(dec[s].todo)
     IN /\ rows' = saveProgress(rows, w.steamID, w.progress)
        /\ decWrites' = [decWrites EXCEPT ![w.steamID] = @ + 1]
  /\ dec' = [dec EXCEPT ![s] =
               IF Len(dec[s].todo) > 1
                 THEN [dec[s] EXCEPT !.todo = Tail(@)] ELSE DecIdle]
  /\ UNCHANGED << mountVars, timerVars, hostVars, file, acc, gen, rcon,
                  budget, accWrites, everQualified,
                  published, sideVars >>

\* A store call of a decay run rejects: the catch of line 632 ends the run.
DecFail(s) ==
  /\ dec[s].pc \in {"findAll", "save"}
  /\ budget.failure > 0
  /\ Spend("failure")
  /\ dec' = [dec EXCEPT ![s] = DecIdle]
  /\ UNCHANGED << mountVars, timerVars, hostVars, rows, file, acc, gen, rcon,
                  histVars, sideVars, published >>

(* --------------------------- materialization --------------------------- *)
\* The setInterval callback of startWhitelistGenerationInterval.
GenTimer ==
  /\ whitelistInterval
  /\ budget.generate > 0
  /\ FreeSlot(gen) # 0
  /\ Spend("generate")
  /\ gen' = [gen EXCEPT ![FreeSlot(gen)] =
               [GenIdle EXCEPT !.pc = "findAll", !.origin = "timer"]]
  /\ UNCHANGED << mountVars, timerVars, hostVars, rows, file, acc, dec, rcon,
                  histVars, sideVars, published >>

\* generateWhitelistFile() returns.  The run mount() awaited lets mount()
\* go on to start the three intervals.
GenReturn(s) ==
  /\ gen' = [gen EXCEPT ![s] = GenIdle]
  /\ IF gen[s].origin = "mount"
       THEN /\ phase' = "mounted"
            /\ StartIntervals
       ELSE UNCHANGED << phase, timerVars >>
  /\ UNCHANGED << options, listeners, binds >>

\* findAll resolves: the content is built and fs.writeFile is called.
GenFindAll(s) ==
  /\ gen[s].pc = "findAll"
  /\ gen' = [gen EXCEPT ![s].pc = "open",
                        ![s].content = whitelistContent(options, findAllGte(rows, options)),
                        ![s].seen = rows]
  /\ UNCHANGED << mountVars, timerVars, hostVars, rows, file, acc, dec, rcon,
                  budget, histVars, sideVars, published >>

\* fs.writeFile opens the path with flag 'w': the file is created or cut to
\* length zero.
GenOpen(s) ==
  /\ gen[s].pc = "open"
  /\ file' = FileOf(<<>>)
  /\ published' = [published EXCEPT !.intact = FALSE]
  /\ gen' = [gen EXCEPT ![s].pc = "write"]
  /\ UNCHANGED << mountVars, timerVars, hostVars, rows, acc, dec, rcon,
                  budget, histVars, sideVars >>

\* fs.writeFile writes the content and resolves.
GenWrite(s) ==
  /\ gen[s].pc = "write"
  /\ file' = FileOf(writeAtStart(file.data, gen[s].content))
  /\ published' = [Published(gen[s].seen) EXCEPT !.intact = (file'.data = gen[s].content)]
  /\ GenReturn(s)
  /\ UNCHANGED << hostVars, rows, acc, dec, rcon, budget, histVars, sideVars >>

\* The store read or the open rejects: nothing was written.
GenFailEarly(s) ==
  /\ gen[s].pc \in {"findAll", "open"}
  /\ budget.failure > 0
  /\ Spend("failure")
  /\ GenReturn(s)
  /\ UNCHANGED << hostVars, rows, file, acc, dec, rcon, histVars, sideVars, published >>

\* The write rejects after the open (a full disk, an I/O error): the file
\* keeps the bytes of the content written before the error.
GenFailWrite(s) ==
  /\ gen[s].pc = "write"
  /\ budget.failure > 0
  /\ Spend("failure")
  /\ \E k \in 0..(Len(gen[s].content) - 1) :
       file' = FileOf(writeAtStart(file.data, SubSeq(gen[s].content, 1, k)))
  /\ GenReturn(s)
  /\ UNCHANGED << hostVars, rows, acc, dec, rcon, histVars, sideVars, published >>

(* ------------------------------- query --------------------------------- *)
\* The `info` of a CHAT_COMMAND event: its player descriptor, or none.
Info(id)     == [hasPlayer |-> TRUE, steamID |-> id]
InfoNoPlayer == [hasPlayer |-> FALSE, steamID |-> NoId]
Infos        == { Info(id) : id \in Players } \cup { InfoNoPlayer }

\* The reply of onChatCommand: its three forms.
ReplyNone == [kind |-> "none", pct |-> 0, rank |-> 0, total |-> 0]
ReplyProgress(pct) == [kind |-> "progress", pct |-> pct, rank |-> 0, total |-> 0]
ReplyWhitelisted(pct, rank, total) ==
  [kind |-> "whitelisted", pct |-> pct, rank |-> rank, total |-> total]

\* Array.prototype.sort((a, b) => b.progress - a.progress) is stable: a row
\* goes after every row placed so far whose progress is not smaller.
insertDesc(sorted, row) ==
  LET k == Cardinality({ i \in 1..Len(sorted) :
                           dGte(sorted[i].progress, row.progress) })
  IN SubSeq(sorted, 1, k) \o << row >> \o SubSeq(sorted, k + 1, Len(sorted))

RECURSIVE sortDesc(_, _)
sortDesc(rs, n) ==
  IF n = 0 THEN <<>> ELSE insertDesc(sortDesc(rs, n - 1), rs[n])

\* findIndex((p) => p.steamID === steamID): 0-based, -1 when absent.
findIndex(rs, id) ==
  IF RowIdx(rs, id) = {} THEN -1
  ELSE (CHOOSE i \in RowIdx(rs, id) : \A j \in RowIdx(rs, id) : i <= j) - 1

\* The rank left 0-based.
rankReplyZeroBased(opts, currentProgress, allWhitelistedPlayers, id) ==
  ReplyWhitelisted(progressPercentage(opts, currentProgress),
                   findIndex(sortDesc(allWhitelistedPlayers,
                                      Len(allWhitelistedPlayers)), id),
                   Len(allWhitelistedPlayers))

\* Lines 322-337 on the rows findAll returned.
rankReply(opts, currentProgress, allWhitelistedPlayers, id) ==
  ReplyWhitelisted(progressPercentage(opts, currentProgress),
                   findIndex(sortDesc(allWhitelistedPlayers,
                                      Len(allWhitelistedPlayers)), id) + 1,
                   Len(allWhitelistedPlayers))

\* this.server.rcon.warn(info.player.steamID, ...) of onChatCommand.
Reply(id, r) == replies' = [replies EXCEPT ![id] = Append(@, r)]

\* The host delivers a !slwl command: onChatCommand(info) up to its first
\* await.  `info.player.steamID` (line 301) is read before the try: with no
\* player it throws and the promise the handler returned rejects.
ChatCommand ==
  /\ listeners # {}
  /\ budget.query > 0
  /\ FreeSlot(qry) # 0
  /\ Spend("query")
  /\ \E info \in Infos :
       IF info.hasPlayer
         THEN /\ qry' = [qry EXCEPT ![FreeSlot(qry)] =
                          [pc |-> "findOne", steamID |-> info.steamID,
                           progress |-> Zero]]
              /\ UNCHANGED noted
         ELSE /\ noted' = noted \cup {"onChatCommand: rejected"}
              /\ UNCHANGED qry
  /\ UNCHANGED << mountVars, timerVars, hostVars, rows, file, acc, dec, gen,
                  rcon, histVars, published, replies >>

\* findOne resolves: the reply is sent, or the rank query is issued.
QryFindOne(s) ==
  /\ qry[s].pc = "findOne"
  /\ LET id == qry[s].steamID
         playerProgress == findOne(rows, id)
     IN IF playerProgress = NoRecord
          THEN /\ Reply(id, ReplyNone)
               /\ qry' = [qry EXCEPT ![s] = QryIdle]
          ELSE IF dGte(playerProgress.progress, Double(options.threshold))
            THEN /\ qry' = [qry EXCEPT ![s].pc = "findAll",
                                       ![s].progress = playerProgress.progress]
                 /\ UNCHANGED replies
            ELSE /\ Reply(id, ReplyProgress(
                                progressPercentage(options, playerProgress.progress)))
                 /\ qry' = [qry EXCEPT ![s] = QryIdle]
  /\ UNCHANGED << mountVars, timerVars, hostVars, rows, file, acc, dec, gen,
                  rcon, budget, histVars, published, noted >>

\* findAll resolves: rank and total are computed and the reply is sent.
QryFindAll(s) ==
  /\ qry[s].pc = "findAll"
  /\ Reply(qry[s].steamID,
           rankReply(options, qry[s].progress, findAllGte(rows, options),
                     qry[s].steamID))
  /\ qry' = [qry EXCEPT ![s] = QryIdle]
  /\ UNCHANGED << mountVars, timerVars, hostVars, rows, file, acc, dec, gen,
                  rcon, budget, histVars, published, noted >>

\* A store call of onChatCommand rejects: the catch of line 367 logs it and
\* no reply is sent.
QryFail(s) ==
  /\ qry[s].pc \in {"findOne", "findAll"}
  /\ budget.failure > 0
  /\ Spend("failure")
  /\ qry' = [qry EXCEPT ![s] = QryIdle]
  /\ UNCHANGED << mountVars, timerVars, hostVars, rows, file, acc, dec, gen,
                  rcon, histVars, published, replies, noted >>

(* ---------------------------- specification ---------------------------- *)
Host ==
  \/ HostRoster
  \/ HostClock

Mount ==
  \/ MountSync
  \/ MountEnsure

TimerAccrual ==
  \/ ProgressTimer
  \/ \E s \in 1..MaxAccInFlight : AccFindOne(s)
  \/ \E s \in 1..MaxAccInFlight : AccCreate(s)
  \/ \E s \in 1..MaxAccInFlight : AccSave(s)

Accrual == TimerAccrual \/ HostEmitUpdate

\* The timer fires when the previous invocation has completed.
ProgressTimerAlone ==
  /\ \A s \in DOMAIN acc : acc[s].pc = "idle"
  /\ ProgressTimer

\* Sampling ticks that each complete before the next one fires.
SerialAccrual ==
  \/ ProgressTimerAlone
  \/ \E s \in 1..MaxAccInFlight : AccFindOne(s)
  \/ \E s \in 1..MaxAccInFlight : AccCreate(s)
  \/ \E s \in 1..MaxAccInFlight : AccSave(s)

Decay ==
  \/ DecayTimer
  \/ \E s \in 1..MaxDecInFlight : DecFindAll(s)
  \/ \E s \in 1..MaxDecInFlight : DecSave(s)

Generate ==
  \/ GenTimer
  \/ \E s \in 1..MaxGenInFlight : GenFindAll(s)
  \/ \E s \in 1..MaxGenInFlight : GenOpen(s)
  \/ \E s \in 1..MaxGenInFlight : GenWrite(s)

\* A step of mount(), a store call or the opening of the file fails.
EarlyFailure ==
  \/ MountSyncFails
  \/ MountEnsureFails
  \/ \E s \in 1..MaxAccInFlight : AccFail(s)
  \/ \E s \in 1..MaxDecInFlight : DecFail(s)
  \/ \E s \in 1..MaxGenInFlight : GenFailEarly(s)

\* A filesystem operation or the store read of a materialization fails.
FileFailure ==
  \/ MountEnsureFails
  \/ \E s \in 1..MaxGenInFlight : GenFailEarly(s)
  \/ \E s \in 1..MaxGenInFlight : GenFailWrite(s)

Failure ==
  \/ EarlyFailure
  \/ \E s \in 1..MaxGenInFlight : GenFailWrite(s)

Query ==
  \/ ChatCommand
  \/ \E s \in 1..MaxQryInFlight : QryFindOne(s)
  \/ \E s \in 1..MaxQryInFlight : QryFindAll(s)
  \/ \E s \in 1..MaxQryInFlight : QryFail(s)

\* Timer firings that end without touching the store.
Idle ==
  \/ ProgressTimerNoAward
  \/ DecayTimerGated

Next == Host \/ Mount \/ Unmount \/ Accrual \/ Decay \/ Generate \/ Failure
          \/ Query \/ Idle

\* Every behaviour of the plugin within the bounds.
Spec == Init /\ [][Next]_vars

\* The run of generateWhitelistFile() that mount() awaits.
MountGeneration ==
  \/ \E s \in 1..MaxGenInFlight : GenFindAll(s)
  \/ \E s \in 1..MaxGenInFlight : GenOpen(s)
  \/ \E s \in 1..MaxGenInFlight : GenWrite(s)

(* The state space of Spec is the product of everything the environment may
   do.  The claims are checked under specifications of the same plugin
   (same initial state, same actions), each giving the environment what
   the claims checked under it are about. *)

\* Timers and events racing on the store; nothing fails.
RaceBudget ==
  [ progress |-> MaxProgressTicks, event |-> MaxEvents, decay |-> MaxDecayTicks,
    generate |-> 0, failure |-> 0, roster |-> MaxRosterChanges, query |-> 0 ]
NextRace == Host \/ Mount \/ Unmount \/ Accrual \/ Decay \/ MountGeneration
SpecRace == InitWith(RaceBudget) /\ [][NextRace]_vars

\* Timers and events with mount steps and store calls that may fail, on a
\* plugin that stays mounted.
FaultBudget ==
  [ progress |-> MaxProgressTicks, event |-> MaxEvents, decay |-> MaxDecayTicks,
    generate |-> 0, failure |-> MaxFailures, roster |-> MaxRosterChanges,
    query |-> 0 ]
NextFault ==
  Host \/ Mount \/ Accrual \/ Decay \/ MountGeneration \/ EarlyFailure
SpecFault == InitWith(FaultBudget) /\ [][NextFault]_vars

\* The materialization timer running beside sampling ticks (one at a time)
\* and decay, with materializations that may fail, on a plugin that stays
\* mounted.
FileBudget ==
  [ progress |-> MaxProgressTicks, event |-> 0, decay |-> MaxDecayTicks,
    generate |-> MaxGenTicks, failure |-> MaxFailures, roster |-> MaxRosterChanges,
    query |-> 0 ]
NextFile == Host \/ Mount \/ SerialAccrual \/ Decay \/ Generate \/ FileFailure
SpecFile == InitWith(FileBudget) /\ [][NextFile]_vars

(* A plugin mounted over a store that persisted from an earlier run, serving
   chat commands while the decay timer runs. *)
StoreConfigs ==
  { [ threshold            |-> 100,
      progressPerHour      |-> 1200,
      decayPerHour         |-> 90,
      decayIntervalSeconds |-> 1200,
      decayAfterHours      |-> 1,
      minPlayersForDecay   |-> 2,
      minSquadMembers      |-> 2,
      onlyOpenSquads       |-> TRUE,
      managedWhitelistGroup |-> GroupName ] }

\* The scores of the persisted records.
StoreScores == {60, 100, 120, 150, 200}

\* 14.5, the score 29 samples at 60 points per hour leave.
HalfwayScore == dDivInt(Double(29), 2)

StoreRows ==
  [ steamID : Players,
    progress : { Double(x) : x \in StoreScores } \cup { HalfwayScore },
    lastProgressed : {0} ]

\* Tables of at most MaxRecords rows, one row per steamID (the primary key).
PersistedStores ==
  { rs \in UNION { [1..n -> StoreRows] : n \in 0..MaxRecords } :
      \A i, j \in 1..Len(rs) : i # j => rs[i].steamID # rs[j].steamID }

RosterSolo == Roster(<< Desc(P1, 1, StrFalse, TRUE) >>)
StoreRosters == { RosterNone, RosterSolo, RosterOne }

StoreBudget ==
  [ progress |-> 0, event |-> 0, decay |-> MaxDecayTicks, generate |-> 0,
    failure |-> MaxFailures, roster |-> 0, query |-> MaxQueries ]

\* The state mount() leaves: listeners registered, file generated from the
\* store, the three intervals armed.
MountedOver(opts, rs, players, b) ==
  /\ options = opts
  /\ phase = "mounted"
  /\ listeners = {1}
  /\ binds = 1
  /\ progressInterval = TRUE
  /\ decayInterval = TRUE
  /\ whitelistInterval = TRUE
  /\ serverPlayers = players
  /\ clock = 0
  /\ rows = rs
  /\ file = FileOf(whitelistContent(opts, findAllGte(rs, opts)))
  /\ acc = [s \in 1..MaxAccInFlight |-> AccIdle]
  /\ dec = [s \in 1..MaxDecInFlight |-> DecIdle]
  /\ gen = [s \in 1..MaxGenInFlight |-> GenIdle]
  /\ rcon = [p \in Players |-> <<>>]
  /\ budget = b
  /\ accWrites = [p \in Players |-> 0]
  /\ decWrites = [p \in Players |-> 0]
  /\ everQualified = QualifiedIn(rs, opts)
  /\ published = Published(rs)
  /\ qry = [s \in 1..MaxQryInFlight |-> QryIdle]
  /\ replies = [p \in Players |-> <<>>]
  /\ noted = {}

InitStore ==
  \E opts \in StoreConfigs, rs \in PersistedStores, players \in StoreRosters :
    MountedOver(opts, rs, players, StoreBudget)

NextStore == HostClock \/ Query \/ Decay \/ DecayTimerGated
SpecStore == InitStore /\ [][NextStore]_vars

\* Decay runs, chat commands and timer-driven file generations, with store
\* and file-system failures, over a persisted store: no accrual.
FrameScores == {60, 120}

FrameStores ==
  { rs \in PersistedStores :
      /\ Len(rs) <= MaxFrameRecords
      /\ \A i \in 1..Len(rs) : rs[i].progress \in { Double(x) : x \in FrameScores } }

FrameBudget ==
  [ progress |-> 0, event |-> 0, decay |-> MaxDecayTicks,
    generate |-> MaxFrameGenTicks, failure |-> MaxFailures, roster |-> 0,
    query |-> MaxQueries ]

InitFrame ==
  \E opts \in StoreConfigs, rs \in FrameStores, players \in StoreRosters :
    MountedOver(opts, rs, players, FrameBudget)

NextFrame ==
  \/ HostClock
  \/ Query
  \/ Decay
  \/ DecayTimerGated
  \/ Generate
  \/ \E s \in 1..MaxDecInFlight : DecFail(s)
  \/ \E s \in 1..MaxGenInFlight : GenFailEarly(s)
  \/ \E s \in 1..MaxGenInFlight : GenFailWrite(s)

SpecFrame == InitFrame /\ [][NextFrame]_vars

(* A mounted plugin sampling roster snapshots of every shape, under every
   eligibility configuration. *)
EligConfigs ==
  { [ threshold            |-> 10,
      progressPerHour      |-> 1200,
      decayPerHour         |-> 36,
      decayIntervalSeconds |-> 1200,
      decayAfterHours      |-> 1,
      minPlayersForDecay   |-> 2,
      minSquadMembers      |-> m,
      onlyOpenSquads       |-> o,
      managedWhitelistGroup |-> GroupName ] : m \in 1..2, o \in BOOLEAN }

\* The forms of the lock flag: booleans, strings in any mix of cases, and a
\* squad with no flag.
LockValues ==
  { JsBoolean(FALSE), JsBoolean(TRUE), StrFalse, StrTRUE, StrfAlse, JsUndefined }

\* The entries a snapshot may hold for player id: no squad, a squad, null.
EntriesFor(id) ==
  { Desc(id, 0, JsUndefined, lead) : lead \in BOOLEAN }
    \cup { Desc(id, sq, lock, lead) :
             sq \in 1..2, lock \in LockValues, lead \in BOOLEAN }
    \cup { NullDesc }

RosterIds == << P1, P2, P3 >>

EligRosters ==
  { Roster(list) :
      list \in UNION { { l \in [1..n -> UNION { EntriesFor(RosterIds[i]) : i \in 1..n }] :
                            \A i \in 1..n : l[i] \in EntriesFor(RosterIds[i]) } :
                       n \in 0..MaxRosterLen } }

EligBudget ==
  [ progress |-> MaxProgressTicks, event |-> 0, decay |-> 0, generate |-> 0,
    failure |-> 0, roster |-> 0, query |-> 0 ]

InitEligibility ==
  \E opts \in EligConfigs, players \in EligRosters :
    MountedOver(opts, <<>>, players, EligBudget)

NextEligibility == TimerAccrual \/ ProgressTimerNoAward
SpecEligibility == InitEligibility /\ [][NextEligibility]_vars

(* A mounted plugin whose sampling tick awards a leader whose persisted
   score, and whose increment and threshold, vary. *)
AwardConfigs ==
  { [ threshold            |-> t,
      progressPerHour      |-> pph,
      decayPerHour         |-> 36,
      decayIntervalSeconds |-> 1200,
      decayAfterHours      |-> 1,
      minPlayersForDecay   |-> 2,
      minSquadMembers      |-> 2,
      onlyOpenSquads       |-> TRUE,
      managedWhitelistGroup |-> GroupName ] :
      t \in {15, 100}, pph \in {600, 1200, 3000} }

AwardScores == { 5 * k : k \in 0..MaxScoreSteps }

AwardStores ==
  { <<>> } \cup
  { << [steamID |-> P1, progress |-> Double(x), lastProgressed |-> 0] >> :
      x \in AwardScores }

AwardBudget ==
  [ progress |-> MaxProgressTicks, event |-> 0, decay |-> 0, generate |-> 0,
    failure |-> 0, roster |-> 0, query |-> 0 ]

InitAward ==
  \E opts \in AwardConfigs, rs \in AwardStores :
    MountedOver(opts, rs, RosterOne, AwardBudget)

NextAward == TimerAccrual
SpecAward == InitAward /\ [][NextAward]_vars

(* A mounted plugin under the default rate (50 points per hour, threshold
   100) whose sampling ticks each complete before the next one fires. *)
ScenarioConfigs ==
  { [ threshold            |-> 100,
      progressPerHour      |-> 50,
      decayPerHour         |-> 36,
      decayIntervalSeconds |-> 1200,
      decayAfterHours      |-> 1,
      minPlayersForDecay   |-> 2,
      minSquadMembers      |-> 2,
      onlyOpenSquads       |-> TRUE,
      managedWhitelistGroup |-> GroupName ] }

\* The store is empty, or holds the record of a player who is not a leader.
ScenarioStores ==
  { <<>>, << [steamID |-> P3, progress |-> Double(60), lastProgressed |-> 0] >> }

ScenarioBudget ==
  [ progress |-> MaxScenarioTicks, event |-> 0, decay |-> 0, generate |-> 0,
    failure |-> 0, roster |-> 0, query |-> 0 ]

InitTicks ==
  \E opts \in ScenarioConfigs, rs \in ScenarioStores :
    MountedOver(opts, rs, RosterOne, ScenarioBudget)

NextTicks == HostClock \/ SerialAccrual
SpecTicks == InitTicks /\ [][NextTicks]_vars

(* ------------------------------- claims -------------------------------- *)
\* The stored score of a player; a player with no record has none, 0.
ScoreOf(rs, id) == findOne(rs, id).progress

\* No accrual or decay invocation is waiting on the store.
StoreQuiescent ==
  /\ \A s \in DOMAIN acc : acc[s].pc = "idle"
  /\ \A s \in DOMAIN dec : dec[s].pc = "idle"

RECURSIVE SerialResults(_, _, _, _)
\* The scores that a accruals and d decays, applied one after the other in
\* some order, can leave of a score p.
SerialResults(opts, a, d, p) ==
  IF a = 0 /\ d = 0 THEN {p}
  ELSE (IF a > 0 THEN SerialResults(opts, a - 1, d,
                                    dAdd(p, progressIncrement(opts)))
                 ELSE {})
       \cup
       (IF d > 0 THEN SerialResults(opts, a, d - 1, decayedProgress(opts, p))
                 ELSE {})

\* C1: no update to a record is lost under concurrent ticks.  Once the
\* invocations that modified a record have finished, its score is what their
\* updates (accWrites accruals, decWrites decays) give when applied one after
\* the other in some order.
C1_NoLostUpdate ==
  StoreQuiescent =>
    \A i \in 1..Len(rows) :
      rows[i].progress \in
        SerialResults(options, accWrites[rows[i].steamID],
                      decWrites[rows[i].steamID], Zero)

\* C2: once unmount has run, no accrual, decay or materialization invocation
\* starts.
C2_NothingStartsAfterUnmount ==
  [][ phase = "unmounted" =>
        /\ \A s \in DOMAIN acc : acc[s].pc = "idle" => acc'[s].pc = "idle"
        /\ \A s \in DOMAIN dec : dec[s].pc = "idle" => dec'[s].pc = "idle"
        /\ \A s \in DOMAIN gen : gen[s].pc = "idle" => gen'[s].pc = "idle" ]_vars

\* C3: two invocations of the same periodic task are never in flight together.
C3_SameTaskNeverOverlaps ==
  /\ Cardinality({ s \in DOMAIN acc : acc[s].pc # "idle" /\ acc[s].origin = "timer" }) <= 1
  /\ Cardinality({ s \in DOMAIN dec : dec[s].pc # "idle" }) <= 1
  /\ Cardinality({ s \in DOMAIN gen : gen[s].pc # "idle" /\ gen[s].origin = "timer" }) <= 1

\* C4: a persistence failure for one leader does not abort the tick.  An
\* accrual invocation ends only on the last of its eligible leaders: no
\* leader that comes after the current one is left without its delta.
C4_FailureDoesNotAbortTick ==
  [][ \A s \in DOMAIN acc :
        (acc[s].pc # "idle" /\ acc'[s].pc = "idle") => Len(acc[s].leaders) = 1 ]_vars

\* C5: accrual is invoked only by the 30 s sampling tick, and a roster-update
\* event pushed by the host never by itself changes any score: no invocation
\* is started by the event, and no step of one changes a stored score.
C5_OnlyTheTickAccrues ==
  [][ \A s \in DOMAIN acc :
        /\ (acc[s].pc = "idle" /\ acc'[s].pc # "idle") => acc'[s].origin = "timer"
        /\ (acc[s].origin = "event" /\ acc'[s] # acc[s]) =>
             \A p \in Players : ScoreOf(rows', p) = ScoreOf(rows, p) ]_vars

\* C6: a milestone notification is sent to a player at most once for each
\* 10-point band, and never after the player's stored score was first at or
\* above the threshold.
C6_OncePerBandAndSilentAfterQualifying ==
  \A p \in Players :
    \A i \in 1..Len(rcon[p]) :
      /\ ~rcon[p][i].late
      /\ \A j \in 1..Len(rcon[p]) : i # j => rcon[p][i].band # rcon[p][j].band

\* The orders in which the records of some of the players can be read.
Readings ==
  { ids \in UNION { [1..n -> Players] : n \in 0..Cardinality(Players) } :
      \A i, j \in 1..Len(ids) : i # j => ids[i] # ids[j] }

\* The content of a file some completed materialization wrote.
IsMaterialized(data, opts) ==
  \E ids \in Readings :
    data = whitelistContent(opts, [ i \in 1..Len(ids) |-> [steamID |-> ids[i]] ])

\* C7: the output file is rewritten atomically.  At every moment the file a
\* reader sees is the placeholder (empty, and only until a materialization
\* has written) or a complete file some materialization produced.
C7_FileAlwaysComplete ==
  file.exists =>
    \/ file.data = <<>> /\ ~published.done
    \/ IsMaterialized(file.data, options)

\* The offsets of `data` at which a line `Admin=<id>:<g>` starts.
AdminLineAt(data, g, id) ==
  LET line == << NL >> \o adminLine(id, g) \o << NL >>
  IN { k \in 1..Len(data) :
         /\ k + Len(line) - 1 <= Len(data)
         /\ SubSeq(data, k, k + Len(line) - 1) = line }

\* The ids that have an Admin line.
AdminIds(data, g) == { id \in Players : AdminLineAt(data, g, id) # {} }

\* C8 as stated: after every materialization tick the ids with an Admin line
\* are exactly the ids of the records with score >= threshold.
C8_FileReflectsStoreAfterEveryTick ==
  [][ \A s \in DOMAIN gen :
        (gen[s].pc # "idle" /\ gen'[s].pc = "idle") =>
          AdminIds(file'.data, options.managedWhitelistGroup)
            = QualifiedIn(rows', options) ]_vars

\* C8, amended: whenever the file holds exactly the content the last
\* completed write wrote, its Admin lines are, one line each, exactly the ids
\* of the records whose score was >= threshold when that run read the store.
C8_FileReflectsTheRowsRead ==
  published.intact =>
    /\ AdminIds(file.data, options.managedWhitelistGroup)
         = QualifiedIn(published.seen, options)
    /\ \A p \in Players :
         Cardinality(AdminLineAt(file.data, options.managedWhitelistGroup, p)) <= 1

\* C8's case: the file holds the output of a run that read the store after a
\* player's score had dropped below the threshold, and has no line for that player,
\* while it lists a player who qualifies.
C8_Witness ==
  /\ published.intact
  /\ \E p \in everQualified :
       /\ p \notin QualifiedIn(published.seen, options)
       /\ findOne(published.seen, p) # NoRecord
       /\ p \notin AdminIds(file.data, options.managedWhitelistGroup)
  /\ AdminIds(file.data, options.managedWhitelistGroup) # {}

\* C9: every stored record has score >= 0.
C9_ScoreNeverNegative ==
  \A i \in 1..Len(rows) : dGte(rows[i].progress, Zero)

\* C9's case: a decay has written a record's score and the floor was hit.
C9_Witness ==
  \E i \in 1..Len(rows) :
    /\ decWrites[rows[i].steamID] > 0
    /\ rows[i].progress = Zero

\* C10: a store write of an accrual step never leaves the stored score lower
\* than it was just before the write, and one of a decay step never leaves it
\* higher.
C10_WritesAreMonotonic ==
  [][ /\ \A s \in DOMAIN acc :
           (acc[s].pc = "save" /\ acc'[s] # acc[s]) =>
             \A p \in Players : dGte(ScoreOf(rows', p), ScoreOf(rows, p))
      /\ \A s \in DOMAIN dec :
           (dec[s].pc = "save" /\ dec'[s] # dec[s]) =>
             \A p \in Players : dGte(ScoreOf(rows, p), ScoreOf(rows', p)) ]_vars

\* C11: no write sets a record's lastProgressed to a value earlier than the
\* value already stored, whatever the interleaving of accrual invocations.
C11_LastProgressedOnlyMovesForward ==
  [][ \A i \in 1..Len(rows) :
        rows'[i].lastProgressed >= rows[i].lastProgressed ]_vars

\* C12: a decay tick that runs while the live player count is below
\* minPlayersForDecay changes no record and starts no work on the store.
C12_GatedTickChangesNothing ==
  [][ (budget'.decay < budget.decay
        /\ playerCount(serverPlayers) < options.minPlayersForDecay)
      => (rows' = rows /\ dec' = dec) ]_vars

\* C12's case: a tick was stopped by the gate while the store held a record
\* with a positive score that had been idle for longer than decayAfterHours.
C12_Witness ==
  /\ "decay: gate closed" \in noted
  /\ playerCount(serverPlayers) < options.minPlayersForDecay
  /\ \E i \in 1..Len(rows) :
       /\ dGt(rows[i].progress, Zero)
       /\ clock - rows[i].lastProgressed > options.decayAfterHours

\* max(0, score - decayPerHour * decayIntervalSeconds / 3600)
DecayedScore(opts, score) ==
  LET amount == dDivInt(Double(opts.decayPerHour * opts.decayIntervalSeconds),
                        SecondsPerHour)
      d == dSub(score, amount)
  IN IF dGt(d, Zero) THEN d ELSE Zero

\* The records a decay tick taking place at `now` is to change.
IdleAndDecayable(opts, now, rs) ==
  { i \in 1..Len(rs) :
      /\ now - rs[i].lastProgressed > opts.decayAfterHours
      /\ DecayedScore(opts, rs[i].progress) # rs[i].progress }

\* C13: a decay tick that passes the gate changes exactly the records whose
\* idle time is strictly greater than decayAfterHours, setting each to
\* max(0, score - decay amount) and writing only when that differs; a record
\* whose idle time is <= decayAfterHours is never changed by decay.
C13_DecayChangesExactlyTheIdle ==
  [][ \A s \in DOMAIN dec :
        /\ (dec[s].pc = "findAll" /\ dec'[s] # dec[s] /\ budget' = budget) =>
              { w.steamID : w \in { dec'[s].todo[k] : k \in 1..Len(dec'[s].todo) } }
                = { rows[i].steamID : i \in IdleAndDecayable(options, dec[s].now, rows) }
        /\ (dec[s].pc = "save" /\ dec'[s] # dec[s]) =>
              \A i \in 1..Len(rows) :
                rows'[i] # rows[i] =>
                  /\ i \in IdleAndDecayable(options, dec[s].now, rows)
                  /\ rows'[i].progress = DecayedScore(options, rows[i].progress)
                  /\ rows'[i].lastProgressed = rows[i].lastProgressed ]_vars

\* round(100 * score / threshold)
RoundedRatio(score, threshold) == dRound(dDivInt(dMulInt(score, 100), threshold))

\* The 1-based position of row i among the rows of rs with score >= min,
\* sorted by descending score with ties kept in the order of rs.
RankOf(rs, i, min) ==
  1 + Cardinality({ j \in 1..Len(rs) :
                      /\ dGte(rs[j].progress, min)
                      /\ \/ dGt(rs[j].progress, rs[i].progress)
                         \/ rs[j].progress = rs[i].progress /\ j < i })

\* The reply C16 gives for a query by id over the store rs.
QueryReply(opts, rs, id) ==
  IF RowIdx(rs, id) = {} THEN ReplyNone
  ELSE LET i == CHOOSE k \in RowIdx(rs, id) : TRUE
           pct == RoundedRatio(rs[i].progress, opts.threshold)
       IN IF dLt(rs[i].progress, Double(opts.threshold))
            THEN ReplyProgress(pct)
            ELSE ReplyWhitelisted(pct, RankOf(rs, i, Double(opts.threshold)),
                   Cardinality({ j \in 1..Len(rs) :
                                   dGte(rs[j].progress, Double(opts.threshold)) }))

\* C16: every reply to a query is the one the store determines: no record,
\* the no-progress reply; score < threshold, the percentage and no rank;
\* score >= threshold, the percentage, the rank and the total.
C16_ReplyDeterminedByTheStore ==
  [][ \A p \in Players :
        replies'[p] # replies[p] =>
          replies'[p] = Append(replies[p], QueryReply(options, rows, p)) ]_vars

\* The store of C17: exactly three records, with scores 150, 200 and 120.
IsScenarioStore(rs) ==
  /\ Len(rs) = 3
  /\ { rs[i].progress : i \in 1..3 } = { Double(150), Double(200), Double(120) }

\* C17 as stated: threshold 100, records at 150, 200 and 120; the reply to the
\* player at 150 reports rank 3 of 3.
C17_RankThreeOfThree ==
  [][ \A p \in Players :
        ( /\ replies'[p] # replies[p]
          /\ options.threshold = 100
          /\ IsScenarioStore(rows)
          /\ ScoreOf(rows, p) = Double(150) )
        => /\ replies'[p][Len(replies'[p])].rank = 3
           /\ replies'[p][Len(replies'[p])].total = 3 ]_vars

\* C17, amended: the reply to the player at 150 reports rank 2 of 3 (200 is
\* first, 150 second, 120 third).
C17_RankTwoOfThree ==
  [][ \A p \in Players :
        ( /\ replies'[p] # replies[p]
          /\ options.threshold = 100
          /\ IsScenarioStore(rows)
          /\ ScoreOf(rows, p) = Double(150) )
        => replies'[p] = Append(replies[p], ReplyWhitelisted(150, 2, 3)) ]_vars

\* C17's case: over the store of the scenario, the player at 150 has been
\* sent a reply that carries a rank.
C17_Witness ==
  /\ options.threshold = 100
  /\ IsScenarioStore(rows)
  /\ \E p \in Players :
       /\ ScoreOf(rows, p) = Double(150)
       /\ Len(replies[p]) > 0
       /\ replies[p][Len(replies[p])].kind = "whitelisted"
       /\ replies[p][Len(replies[p])].total = 3

\* C18: no invocation of a handler or timer callback raises an error to its
\* caller: none returns a promise that rejects.
C18_NothingIsThrownToTheHost ==
  "onChatCommand: rejected" \notin noted

\* C19: when the store sync fails during mount, no listener is registered,
\* none of the three timers is armed, and no accrual, decay or
\* materialization runs afterwards.
C19_FailedSyncStartsNothing ==
  phase = "failed" =>
    /\ listeners = {}
    /\ ~progressInterval /\ ~decayInterval /\ ~whitelistInterval
    /\ \A s \in DOMAIN acc : acc[s].pc = "idle"
    /\ \A s \in DOMAIN dec : dec[s].pc = "idle"
    /\ \A s \in DOMAIN gen : gen[s].pc = "idle"
    /\ rows = <<>> /\ ~file.exists

\* C19's case: the sync failed, and since then the host has had a roster
\* with an eligible leader and its clock has moved on.
C19_Witness ==
  /\ phase = "failed"
  /\ leadersOf(options, serverPlayers) # <<>>
  /\ clock > 0

\* The lock flags that are false or a case-insensitive string form of "false".
IsFalseFlag(v) ==
  LET lower == << "f", "a", "l", "s", "e" >>
      upper == << "F", "A", "L", "S", "E" >>
  IN \/ v.type = "boolean" /\ ~v.bool
     \/ /\ v.type = "string"
        /\ Len(v.text) = 5
        /\ \A i \in 1..5 : v.text[i] \in { lower[i], upper[i] }

\* The eligible set as C14 gives it, on a list of descriptors: in roster
\* order, the leaders whose squad id is shared by at least minSquadMembers
\* players and, with onlyOpenSquads, whose lock flag is a false one.
EligibleByContract(opts, list) ==
  LET InSquad(d) == d.squad # NoSquad
      Sharing(d) == { j \in 1..Len(list) :
                       InSquad(list[j]) /\ list[j].squad.squadID = d.squad.squadID }
      Ok(d) == /\ d.isLeader
               /\ InSquad(d)
               /\ Cardinality(Sharing(d)) >= opts.minSquadMembers
               /\ (opts.onlyOpenSquads => IsFalseFlag(d.squad.locked))
      kept == SelectSeq(list, Ok)
  IN [ i \in 1..Len(kept) |-> kept[i].steamID ]

\* The entries of a snapshot that are descriptors.
Descriptors(list) ==
  LET IsDesc(d) == ~d.isNull IN SelectSeq(list, IsDesc)

\* C14: for every snapshot of descriptors and every configuration, the
\* leaders a sampling tick goes on to award are exactly, in roster order, the
\* eligible set of the contract; when that set is empty no invocation stays
\* in flight.
C14_EligibleSetIsTheContract ==
  [][ ( /\ budget'.progress < budget.progress
        /\ Descriptors(serverPlayers.list) = serverPlayers.list )
      => LET e == EligibleByContract(options, serverPlayers.list)
         IN IF e = <<>> THEN acc' = acc
            ELSE \E s \in DOMAIN acc :
                   /\ acc[s].pc = "idle"
                   /\ acc'[s].pc = "findOne"
                   /\ acc'[s].leaders = e ]_vars

\* C14's case: a tick has started an invocation on a snapshot that also holds
\* a leader who is not eligible.
C14_Witness ==
  /\ Descriptors(serverPlayers.list) = serverPlayers.list
  /\ \E s \in DOMAIN acc :
       /\ acc[s].pc # "idle"
       /\ acc[s].leaders = EligibleByContract(options, serverPlayers.list)
  /\ \E i \in 1..Len(serverPlayers.list) :
       /\ serverPlayers.list[i].isLeader
       /\ \A k \in 1..Len(EligibleByContract(options, serverPlayers.list)) :
            EligibleByContract(options, serverPlayers.list)[k]
              # serverPlayers.list[i].steamID

\* C15: a malformed entry is left out and does not fail the tick: when the
\* descriptors of a snapshot hold eligible leaders, the tick starts an
\* invocation that awards exactly them.
C15_MalformedEntryDoesNotFailTheTick ==
  [][ budget'.progress < budget.progress
      => LET e == EligibleByContract(options, Descriptors(serverPlayers.list))
         IN e # <<>> =>
              \E s \in DOMAIN acc :
                /\ acc[s].pc = "idle"
                /\ acc'[s].pc = "findOne"
                /\ acc'[s].leaders = e ]_vars

\* floor(score / 10) of a score that is not negative.
Band(score) == dFloor(score) \div 10

\* progressPerHour * 30 / 3600
Delta(opts) == dDivInt(Double(opts.progressPerHour * 30), SecondsPerHour)

\* C20: in an accrual step with old score o and new score n = o + delta, a
\* notification is sent if and only if floor(o/10) differs from floor(n/10)
\* and o < threshold; it is the "now whitelisted" message when n >= threshold
\* and a percentage update otherwise.
C20_NotificationIffNewBandBelowThreshold ==
  [][ \A s \in DOMAIN acc :
        (acc[s].pc \in {"findOne", "create"} /\ acc'[s].pc = "save") =>
          LET id == Head(acc[s].leaders)
              o  == ScoreOf(rows', id)
              n  == acc'[s].newProgress
              sent == rcon'[id] # rcon[id]
          IN /\ n = dAdd(o, Delta(options))
             /\ sent <=> (Band(o) # Band(n) /\ dLt(o, Double(options.threshold)))
             /\ sent =>
                  /\ Len(rcon'[id]) = Len(rcon[id]) + 1
                  /\ rcon'[id][Len(rcon'[id])].kind =
                       IF dGte(n, Double(options.threshold)) THEN "whitelisted"
                                                             ELSE "progress" ]_vars

\* C20's case: two accrual steps for a player have been saved; one crossed
\* into a new band below the threshold and sent a percentage update, the
\* other sent nothing.
C20_Witness ==
  \E p \in Players :
    /\ accWrites[p] = 2
    /\ Len(rcon[p]) = 1
    /\ rcon[p][1].kind = "progress"
    /\ dLt(ScoreOf(rows, p), Double(options.threshold))

\* The rows of rs other than the record of id, in order.
OtherRows(rs, id) ==
  LET NotId(r) == r.steamID # id IN SelectSeq(rs, NotId)

\* C21: an accrual step that runs without interleaving leaves the leader's
\* record with score = previous score (0 for a record it creates) +
\* progressPerHour * 30 / 3600 and lastProgressed = the tick's time, whatever
\* time has passed since the last accrual, and leaves all other records as
\* they were; with progressPerHour 50 and threshold 100 the 240th consecutive
\* tick, and no earlier one, takes a sole leader from 0 to the threshold
\* (the score is then at or above it: the sum of 240 rounded deltas).
C21_FixedDeltaPerTick ==
  [][ /\ \A s \in DOMAIN acc :
           /\ (acc[s].pc = "create" /\ acc'[s] # acc[s]) =>
                 /\ rows' = Append(rows, [steamID |-> Head(acc[s].leaders),
                                          progress |-> Zero,
                                          lastProgressed |-> acc[s].now])
           /\ (acc[s].pc = "save" /\ acc'[s] # acc[s]) =>
                 LET id == Head(acc[s].leaders)
                 IN /\ ScoreOf(rows', id) = dAdd(ScoreOf(rows, id), Delta(options))
                    /\ findOne(rows', id).lastProgressed = acc[s].now
                    /\ OtherRows(rows', id) = OtherRows(rows, id)
                    /\ Len(rows') = Len(rows)
      /\ (\A s \in DOMAIN acc : acc[s].pc \notin {"create", "save"}) => rows' = rows
      /\ (options.progressPerHour = 50 /\ options.threshold = 100) =>
            \A p \in Players :
              /\ accWrites'[p] < 240 => dLt(ScoreOf(rows', p), Double(100))
              /\ accWrites'[p] = 240 => dGte(ScoreOf(rows', p), Double(100)) ]_vars

\* C21's case: the 240th tick of a sole leader has been saved, hours after the
\* first one, beside the record of a player who is not eligible.
C21_Witness ==
  /\ accWrites[P1] = 240
  /\ dGte(ScoreOf(rows, P1), Double(options.threshold))
  /\ findOne(rows, P1).lastProgressed = MaxClock
  /\ ScoreOf(rows, P3) = Double(60)

RECURSIVE LinesOf(_, _, _)
\* The Admin lines, each ended by a newline, of the rows of rs from the i-th
\* on.
LinesOf(rs, g, i) ==
  IF i > Len(rs) THEN <<>>
  ELSE adminLine(rs[i].steamID, g) \o << NL >> \o LinesOf(rs, g, i + 1)

\* C22: the file a completed materialization run wrote is the group line, one
\* blank line and one Admin line per qualifying record read, in store order
\* (none when no record qualifies), and after a mount in which nothing
\* failed the file exists.
C22_FileIsHeaderBlankAndAdminLines ==
  /\ published.intact =>
       file.data = groupDefinition(options.managedWhitelistGroup) \o << NL >>
                     \o << NL >>
                     \o LinesOf(findAllGte(published.seen, options),
                                options.managedWhitelistGroup, 1)
  /\ (phase = "mounted" /\ budget.failure = MaxFailures) => file.exists

\* C23: the store never holds two records of one player, records are never
\* deleted, and an accrual that is about to create a record another
\* invocation has created meanwhile goes on to update that record.
C23_OneRecordPerPlayer ==
  [][ /\ \A i, j \in 1..Len(rows') : i # j => rows'[i].steamID # rows'[j].steamID
      /\ Len(rows') >= Len(rows)
      /\ \A s \in DOMAIN acc :
           (acc[s].pc = "create" /\ acc'[s] # acc[s]) => acc'[s].pc = "save" ]_vars

\* C25: for every threshold, an accrual step that takes a score from below
\* the threshold to at or above it sends the "now whitelisted" notification.
C25_CrossingIsAlwaysAnnounced ==
  [][ \A s \in DOMAIN acc :
        (acc[s].pc \in {"findOne", "create"} /\ acc'[s].pc = "save") =>
          LET id == Head(acc[s].leaders)
              o  == ScoreOf(rows', id)
              n  == acc'[s].newProgress
          IN ( /\ dLt(o, Double(options.threshold))
               /\ dGte(n, Double(options.threshold)) ) =>
               /\ Len(rcon'[id]) = Len(rcon[id]) + 1
               /\ rcon'[id][Len(rcon'[id])].kind = "whitelisted" ]_vars

\* C26: every reply that carries a rank has 1 <= rank <= total.
C26_RankWithinTotal ==
  \A p \in Players :
    \A i \in 1..Len(replies[p]) :
      replies[p][i].kind = "whitelisted" =>
        (1 <= replies[p][i].rank /\ replies[p][i].rank <= replies[p][i].total)

\* C27: when the store write of an accrual step fails, no notification was
\* sent to the leader in that step.
C27_NoNotificationWithoutPersistence ==
  [][ \A s \in DOMAIN acc :
        ( /\ acc[s].pc = "save"
          /\ acc'[s].pc = "idle"
          /\ budget'.failure < budget.failure )
        => milestoneMessage(options, acc[s].oldProgress, acc[s].newProgress)
             = NoMsg ]_vars

\* C24: a step of a decay run keeps every record's lastProgressed and the
\* number of records; a step of a chat command or of a file generation
\* leaves the whole table as it was.
C24_DecayAndReadsKeepTheirFrame ==
  [][ /\ dec' # dec =>
           /\ Len(rows') = Len(rows)
           /\ \A i \in 1..Len(rows) :
                /\ rows'[i].steamID = rows[i].steamID
                /\ rows'[i].lastProgressed = rows[i].lastProgressed
      /\ (qry' # qry \/ replies' # replies) => rows' = rows
      /\ (gen' # gen \/ file' # file) => rows' = rows ]_vars

\* A decay run has lowered a score, a command has been answered and a
\* timer-driven generation has written the file, with no failure.
C24_Witness ==
  /\ \E p \in Players : decWrites[p] > 0
  /\ \E p \in Players : Len(replies[p]) > 0
  /\ budget.generate = 0
  /\ budget.failure = MaxFailures
  /\ \A s \in 1..MaxGenInFlight : gen[s].pc = "idle"
  /\ \A s \in 1..MaxDecInFlight : dec[s].pc = "idle"
  /\ published.intact
  /\ Len(rows) > 0

====
